---------------------------- MODULE Spec2Model ----------------------------
(***************************************************************************)
(* A model of CharLM's patch-based GPT (src/model2.py).                    *)
(*                                                                         *)
(* Tensors are modelled without their batch and embedding axes: a tensor   *)
(* of shape (b, t, d) is a function 0..t-1 -> element, one of shape        *)
(* (b, k, t, d) a function 0..k-1 -> (0..t-1 -> element).  An element is   *)
(* the set of positions of the (padded) input sequence its value is        *)
(* computed from; every learned operator is taken with generic (non-zero)  *)
(* weights, so it reads all of its window.  Shapes are the domains, and    *)
(* every shape rule of the tensor library that the code relies on          *)
(* (broadcasting, pack, rearrange, the convolution's minimum length) is    *)
(* modelled with its failure.                                              *)
(***************************************************************************)
EXTENDS Integers, Sequences, FiniteSets, TLC

VARIABLES
    cfg,        \* GPTConfig of the model instance
    total_t,    \* idx.size(1) of the forward call
    targets,    \* whether forward was given targets
    hasFlash,   \* hasattr(F, 'scaled_dot_product_attention')
    fwd,        \* the forward call in progress (its locals)
    fwdRef,     \* the same call on a model built with compute_stats flipped
    idx,        \* generate: the running sequence of token ids
    idx0,       \* generate: the conditioning sequence it was called with
    max_new_tokens, \* generate: its argument
    top_k,      \* generate: its argument ([given |-> FALSE] for None)
    gen,        \* generate: the loop's locals
    ctor,       \* GPT.__init__: where it is ("new" .. "constructed", "failed")
    handles,    \* parameter attribute (index in registration order) -> tensor
    tensors,    \* tensor -> its storage: value and requires_grad
    optim,      \* the latest result of configure_optimizers
    stat,       \* the statistics of one Block.forward: its locals
    samp,       \* generate: the locals of one iteration's sampling
    timer,      \* utils.Timer: the fields of one instance
    clock,      \* utils.Timer: what time.time() returns now
    hist        \* utils.Timer: the history of the calls made on the instance

fwdVars == <<total_t, targets, fwd, fwdRef>>

genVars == <<idx, idx0, max_new_tokens, top_k, gen>>

ctorVars == <<ctor, handles, tensors, optim>>

statVars == <<stat>>

sampVars == <<samp>>

timerVars == <<timer, clock, hist>>

vars == <<cfg, hasFlash, fwdVars, genVars, ctorVars, statVars, sampVars, timerVars>>

\* what the actions of one part of the model leave alone
exceptFwd == <<genVars, ctorVars, statVars, sampVars, timerVars>>

exceptGen == <<fwdVars, ctorVars, statVars, sampVars, timerVars>>

exceptCtor == <<fwdVars, genVars, statVars, sampVars, timerVars>>

exceptStat == <<fwdVars, genVars, ctorVars, sampVars, timerVars>>

exceptSamp == <<fwdVars, ctorVars, statVars, timerVars>>

exceptTimer == <<cfg, hasFlash, fwdVars, genVars, ctorVars, statVars, sampVars>>

(***************************************************************************)
(* Bounds of the model.                                                    *)
(***************************************************************************)
MaxSubBlock == 3
MaxPatch == 3
MaxLayer == 2
MaxExtraT == 2
MaxVocab == 2
MaxCtx == 3
MaxNew == 2
MaxLogit == 1
MaxHead == 2
MaxEmbd == 3
MaxWrite == 2
MaxFrozen == 1
MaxDecay == 1

(***************************************************************************)
(* Tensor helpers.                                                         *)
(***************************************************************************)
Size(f) == Cardinality(DOMAIN f)

Min(a, b) == IF a <= b THEN a ELSE b

NoTensor == <<>>

\* einops.rearrange 'b k t d -> b (k t) d'
Merge(x) ==
    LET k == Size(x)
        t == IF k = 0 THEN 0 ELSE Size(x[0])
    IN  [i \in 0..(k * t - 1) |-> x[i \div t][i % t]]

\* einops.rearrange 'b (k t) d -> b k t d', t given; the caller has checked
\* that the length is a multiple of t
Split(flat, t) ==
    [kk \in 0..((Size(flat) \div t) - 1) |-> [j \in 0..(t - 1) |-> flat[kk * t + j]]]

\* F.pad(x, (0, 0, 0, pad), value=0) up to the next multiple of m: the
\* padding holds constants, computed from nothing
PadTo(flat, m) ==
    LET n == Size(flat)
        modulo_t == n % m
        pad == IF modulo_t # 0 THEN m - modulo_t ELSE 0
    IN  [i \in 0..(n + pad - 1) |-> IF i < n THEN flat[i] ELSE {}]

\* broadcasting of two sizes of one axis: the size of the result, 0 if the
\* sizes are incompatible
BroadcastSize(a, b) ==
    IF a = b THEN a ELSE IF a = 1 THEN b ELSE IF b = 1 THEN a ELSE 0

\* the index read from an axis of size n when broadcast to a larger axis
BIdx(n, i) == IF n = 1 THEN 0 ELSE i

(***************************************************************************)
(* Configuration.                                                          *)
(***************************************************************************)
GPTConfig(bs, vs, nl, nh, ne, bias, s, p, stats) ==
    [block_size |-> bs, vocab_size |-> vs, n_layer |-> nl, n_head |-> nh,
     n_embd |-> ne, bias |-> bias, sub_block_size |-> s, patch_size |-> p,
     compute_stats |-> stats]

\* CausalSelfAttention.__init__: the fused path is taken when the library
\* has it and statistics are off
Flash(c, has) == has /\ ~c.compute_stats


(***************************************************************************)
(* Patchify and Unpatchify.                                                *)
(***************************************************************************)
\* a Patchify without the causal guard
NoShift(p) == 0

\* the causal guard: the flattened sequence is rolled by p - 1
Shift(p) == p - 1

\* torch.roll(x, shifts, dims=1): element i comes from i - shifts, cyclically
Roll(flat, shifts) ==
    LET n == Size(flat)
    IN  [i \in 0..(n - 1) |-> flat[(i + shifts * (n - 1)) % n]]

\* x[:, :m] = 0
ZeroHead(flat, m) == [i \in DOMAIN flat |-> IF i < m THEN {} ELSE flat[i]]

\* nn.Conv1d(d, d, p, p): window and stride p, no padding; output j reads
\* inputs j*p .. j*p + p - 1
Conv1d(flat, p) ==
    LET n == Size(flat)
        out == ((n - p) \div p) + 1
    IN  [j \in 0..(out - 1) |-> UNION {flat[j * p + r] : r \in 0..(p - 1)}]

\* nn.ConvTranspose1d(d, d, p, p): each input j is expanded to outputs
\* j*p .. j*p + p - 1
ConvTranspose1d(xp, p) ==
    [i \in 0..(Size(xp) * p - 1) |-> xp[i \div p]]

\* Patchify.forward; the convolution raises when its input is shorter than
\* its kernel
Patchify(c, x) ==
    LET p == c.patch_size
        flat == Merge(x)
        shifted == ZeroHead(Roll(flat, Shift(p)), Shift(p))
    IN  IF Size(flat) < p
        THEN [ok |-> FALSE, xp |-> NoTensor]
        ELSE [ok |-> TRUE,
              xp |-> PadTo(Conv1d(shifted, p), c.sub_block_size)]

\* Unpatchify.forward; rearrange raises when the upscaled length is no
\* multiple of sub_block_size
Unpatchify(c, xp) ==
    LET up == ConvTranspose1d(xp, c.patch_size)
    IN  IF Size(up) % c.sub_block_size # 0
        THEN [ok |-> FALSE, x |-> NoTensor]
        ELSE [ok |-> TRUE, x |-> Split(up, c.sub_block_size)]

(***************************************************************************)
(* Attention and the dual-stream Block.                                    *)
(***************************************************************************)
\* an attention without the causal mask
AttnWeightsNoMask(T) == [t \in 0..(T - 1) |-> 0..(T - 1)]

\* the keys with non-zero weight for each query after the causal mask
\* (the bias buffer, tril) and the softmax; the fused path with
\* is_causal=True has the same support
AttnWeights(T) == [t \in 0..(T - 1) |-> {s \in 0..(T - 1) : s <= t}]

\* att.masked_fill(inside_mask[:,:,:T,:T] == 0, 0.0) with inside_mask =
\* tril(ones, diagonal=-patch_per_sub_block): the keys at least
\* patch_per_sub_block positions back
OutsideAttn(c, att) ==
    LET patch_per_sub_block == c.sub_block_size \div c.patch_size
    IN  [t \in DOMAIN att |-> {s \in att[t] : s <= t - patch_per_sub_block}]

\* an in-place masked_fill_: the statistic overwrites the weights
AttForOutputInPlace(c, flash, att, outside_attn) ==
    IF ~flash /\ c.compute_stats THEN outside_attn ELSE att

\* the attention weights that reach `att @ v`: masked_fill is out of place,
\* so computing outside_attn leaves att as it was
AttForOutput(c, flash, att, outside_attn) == att

\* CausalSelfAttention.forward on one row of the packed batch
CausalSelfAttention(c, flash, row) ==
    LET att == AttnWeights(Size(row))
        outside_attn == IF ~flash /\ c.compute_stats
                        THEN OutsideAttn(c, att) ELSE NoTensor
        used == AttForOutput(c, flash, att, outside_attn)
    IN  [y |-> [t \in DOMAIN row |-> UNION {row[s] : s \in used[t]}],
         outside_attn |-> outside_attn]

\* x + z, then x + mlp(ln_2(x)): both position-wise on top of attention
AttnMlp(c, flash, row) ==
    LET z == CausalSelfAttention(c, flash, row).y
    IN  [t \in DOMAIN row |-> row[t] \cup z[t]]

\* the names of the statistics one Block reports
StatNames == {"outside_attn", "patch_contrib", "outside_contrib", "inside_patch_contrib"}

\* x = x + xu, broadcast over the sub-block axis to k sub-blocks; it is
\* outside the `if self.compute_stats` branch
Fuse(c, x, xu, k) ==
    [kk \in 0..(k - 1) |->
        [t \in 0..(c.sub_block_size - 1) |->
            x[BIdx(Size(x), kk)][t] \cup xu[BIdx(Size(xu), kk)][t]]]

\* Block.forward: pack raises unless both streams have the same length of
\* the t axis; x + xu (and x_std + xu_std) broadcast over the sub-block axis
Block(c, flash, x, xp) ==
    LET packOk == \A kk \in DOMAIN x : Size(x[kk]) = Size(xp)
        x1 == [kk \in DOMAIN x |-> AttnMlp(c, flash, x[kk])]
        xp1 == AttnMlp(c, flash, xp)
        xu == Unpatchify(c, xp1)
        k == BroadcastSize(Size(x1), Size(xu.x))
    IN  IF ~packOk \/ ~xu.ok \/ k = 0
        THEN [ok |-> FALSE, x |-> NoTensor, xp |-> NoTensor, stats |-> {}]
        ELSE [ok |-> TRUE,
              x |-> Fuse(c, x1, xu.x, k),
              xp |-> xp1,
              stats |-> IF c.compute_stats THEN StatNames ELSE {}]

(***************************************************************************)
(* GPT.forward, one stage at a time.  A pass is the record of the call's   *)
(* locals: pc (where the call is), layer (blocks applied), x, xp, pat_emb, *)
(* logits, loss, stats.                                                    *)
(***************************************************************************)
NewPass ==
    [pc |-> "embed", layer |-> 0, x |-> NoTensor, xp |-> NoTensor,
     pat_emb |-> NoTensor, logits |-> NoTensor, loss |-> {}, stats |-> <<>>]

Raise(ps) == [ps EXCEPT !.pc = "error"]

\* wte(idx), the padding to whole sub-blocks, the split and + pos_emb
EmbedStage(c, tt, ps) ==
    LET tok_emb == [i \in 0..(tt - 1) |-> {i}]
    IN  [ps EXCEPT !.pc = "patchify",
                   !.x = Split(PadTo(tok_emb, c.sub_block_size), c.sub_block_size)]

\* pat_emb = patchify(x); xp = pat_emb + pos_emb, pos_emb of shape
\* (sub_block_size, d), broadcast against (b, T', d); the two dropouts are
\* position-wise
PatchifyStage(c, ps) ==
    LET pat == Patchify(c, ps.x)
        n == BroadcastSize(Size(pat.xp), c.sub_block_size)
    IN  IF ~pat.ok \/ n = 0
        THEN Raise(ps)
        ELSE [ps EXCEPT !.pc = "blocks",
                        !.pat_emb = pat.xp,
                        !.xp = [j \in 0..(n - 1) |-> pat.xp[BIdx(Size(pat.xp), j)]]]

\* one iteration of `for block in self.transformer.h`
BlockStage(c, flash, ps) ==
    LET b == Block(c, flash, ps.x, ps.xp)
    IN  IF ~b.ok
        THEN Raise(ps)
        ELSE [ps EXCEPT !.layer = ps.layer + 1, !.x = b.x, !.xp = b.xp,
                        !.stats = Append(ps.stats, b.stats)]

\* ln_f, the merge of the sub-blocks, x[:, :total_t], lm_head and the loss
FinalStage(c, tt, tg, ps) ==
    LET flat == Merge(ps.x)
        x == [i \in 0..(Min(tt, Size(flat)) - 1) |-> flat[i]]
    IN  IF tg
        THEN [ps EXCEPT !.pc = "done", !.logits = x,
                        !.loss = UNION {x[i] : i \in DOMAIN x}]
        ELSE [ps EXCEPT !.pc = "done",
                        !.logits = [i \in 0..0 |-> x[Size(x) - 1]]]

\* the stage the pass is at
Stage(c, flash, tt, tg, ps) ==
    CASE ps.pc = "embed" -> EmbedStage(c, tt, ps)
      [] ps.pc = "patchify" -> PatchifyStage(c, ps)
      [] ps.pc = "blocks" /\ ps.layer < c.n_layer -> BlockStage(c, flash, ps)
      [] ps.pc = "blocks" /\ ps.layer >= c.n_layer -> FinalStage(c, tt, tg, ps)
      [] OTHER -> ps

RECURSIVE RunPass(_, _, _, _, _)
RunPass(c, flash, tt, tg, ps) ==
    IF ps.pc \in {"done", "error"} THEN ps
    ELSE RunPass(c, flash, tt, tg, Stage(c, flash, tt, tg, ps))

\* GPT.forward as a whole
Forward(c, flash, tt, tg) == RunPass(c, flash, tt, tg, NewPass)

(***************************************************************************)
(* GPT.generate.                                                           *)
(***************************************************************************)
\* -float('Inf')
NegInf == -1

NoTopK == [given |-> FALSE, k |-> 0]

NewGen ==
    [pc |-> "loop", err |-> "", i |-> 0, idx_cond |-> <<>>]

GenerateIdle ==
    /\ idx = <<>>
    /\ idx0 = <<>>
    /\ max_new_tokens = 0
    /\ top_k = NoTopK
    /\ gen = NewGen

ForwardIdle ==
    /\ total_t = 0
    /\ targets = FALSE
    /\ fwd = NewPass
    /\ fwdRef = NewPass

\* a crop that keeps the head of the sequence
CropHead(ids, block_size) ==
    IF Len(ids) <= block_size THEN ids ELSE SubSeq(ids, 1, block_size)

\* idx if idx.size(1) <= block_size else idx[:, -block_size:]
Crop(ids, block_size) ==
    IF Len(ids) <= block_size THEN ids
    ELSE SubSeq(ids, Len(ids) - block_size + 1, Len(ids))

\* v[:, [-1]] of torch.topk(logits, k): the k-th largest value of the row
KthLargest(row, k) ==
    CHOOSE v \in {row[i] : i \in DOMAIN row} :
        /\ Cardinality({i \in DOMAIN row : row[i] > v}) < k
        /\ Cardinality({i \in DOMAIN row : row[i] >= v}) >= k

\* a crop that also removes the logits equal to the k-th largest
TopKInclusive(row, k) ==
    LET kk == Min(k, Size(row))
    IN  IF kk <= 0
        THEN [ok |-> FALSE, logits |-> NoTensor]
        ELSE [ok |-> TRUE,
              logits |-> [i \in DOMAIN row |->
                            IF row[i] <= KthLargest(row, kk) THEN NegInf ELSE row[i]]]

\* the top-k crop: topk raises for k < 0, v[:, [-1]] raises for k = 0
TopK(row, k) ==
    LET kk == Min(k, Size(row))
    IN  IF kk <= 0
        THEN [ok |-> FALSE, logits |-> NoTensor]
        ELSE [ok |-> TRUE,
              logits |-> [i \in DOMAIN row |->
                            IF row[i] < KthLargest(row, kk) THEN NegInf ELSE row[i]]]

\* the ids torch.multinomial can draw: those of non-zero probability
Candidates(row) == {i \in DOMAIN row : row[i] # NegInf}

\* the rows of final-position logits a forward pass can return: any finite
\* values, the parameters being arbitrary (the division by a positive
\* temperature keeps them so)
LogitRows(c) == [0..(c.vocab_size - 1) -> 0..MaxLogit]

(***************************************************************************)
(* GPT.__init__ and the parameters.                                        *)
(***************************************************************************)
Param(layer, name, rank, kind, optional) ==
    [layer |-> layer, name |-> name, rank |-> rank, kind |-> kind, optional |-> optional]

\* the parameter attributes of one Block, in registration order; the
\* optional ones exist only with config.bias
BlockParams(l) ==
    << Param(l, "unpatchify.upscale.weight", 3, "Conv", FALSE),
       Param(l, "unpatchify.upscale.bias", 1, "Conv", FALSE),
       Param(l, "ln_1.weight", 1, "LayerNorm", FALSE),
       Param(l, "ln_1.bias", 1, "LayerNorm", TRUE),
       Param(l, "attn.c_attn.weight", 2, "Linear.weight", FALSE),
       Param(l, "attn.c_attn.bias", 1, "Linear.bias", TRUE),
       Param(l, "attn.c_proj.weight", 2, "Linear.weight", FALSE),
       Param(l, "attn.c_proj.bias", 1, "Linear.bias", TRUE),
       Param(l, "ln_2.weight", 1, "LayerNorm", FALSE),
       Param(l, "ln_2.bias", 1, "LayerNorm", TRUE),
       Param(l, "mlp.c_fc.weight", 2, "Linear.weight", FALSE),
       Param(l, "mlp.c_fc.bias", 1, "Linear.bias", TRUE),
       Param(l, "mlp.c_proj.weight", 2, "Linear.weight", FALSE),
       Param(l, "mlp.c_proj.bias", 1, "Linear.bias", TRUE) >>

RECURSIVE LayerParams(_, _)
LayerParams(l, n) == IF l >= n THEN <<>> ELSE BlockParams(l) \o LayerParams(l + 1, n)

\* every parameter attribute of the model, in the order named_parameters
\* walks the modules: patchify, transformer (wte, wpe, h, ln_f), lm_head
ParamList(c) ==
    LET all == << Param(-1, "patchify.downscale.weight", 3, "Conv", FALSE),
                  Param(-1, "patchify.downscale.bias", 1, "Conv", FALSE),
                  Param(-1, "transformer.wte.weight", 2, "Embedding", FALSE),
                  Param(-1, "transformer.wpe.weight", 2, "Embedding", FALSE) >>
               \o LayerParams(0, c.n_layer)
               \o << Param(-1, "transformer.ln_f.weight", 1, "LayerNorm", FALSE),
                     Param(-1, "transformer.ln_f.bias", 1, "LayerNorm", TRUE),
                     Param(-1, "lm_head.weight", 2, "Linear.weight", FALSE) >>
        Exists(q) == q.optional => c.bias
    IN  SelectSeq(all, Exists)

\* the attribute index of a top-level parameter
IndexOf(c, name) == CHOOSE i \in DOMAIN ParamList(c) : ParamList(c)[i].name = name

Wte(c) == IndexOf(c, "transformer.wte.weight")

LmHead(c) == IndexOf(c, "lm_head.weight")

Value(tag, v) == [tag |-> tag, v |-> v]

\* the modules' own constructors: one fresh tensor per attribute, with the
\* library's default initialisation, requiring grad
FreshTensors(c) ==
    [t \in DOMAIN ParamList(c) |-> [val |-> Value("default", t), requires_grad |-> TRUE]]

\* a constructor that leaves the two weights apart
NoTie(c, h) == h

\* self.transformer.wte.weight = self.lm_head.weight
TieWeights(c, h) == [h EXCEPT ![Wte(c)] = h[LmHead(c)]]

\* an in-place write through attribute i goes to the tensor it holds
WriteThrough(h, ts, i, val) == [ts EXCEPT ![h[i]].val = val]

\* the attributes through which _init_weights writes to tensor t: the
\* weights of Linear and Embedding modules and the biases of Linear ones
InitWriters(c, h, t) ==
    {i \in DOMAIN h : /\ h[i] = t
                      /\ ParamList(c)[i].kind \in {"Linear.weight", "Linear.bias", "Embedding"}}

\* what _init_weights writes through attribute i: a normal draw (a fresh
\* value) or zeros
InitValue(c, i) ==
    IF ParamList(c)[i].kind = "Linear.bias" THEN Value("zeros", 0) ELSE Value("normal", i)

MaxOf(S) == CHOOSE m \in S : \A n \in S : n <= m

\* self.apply(self._init_weights): every module in order, each write in
\* place, to the tensor the attribute holds; a tensor keeps its last write
ApplyInit(c, h, ts) ==
    [t \in DOMAIN ts |->
        IF InitWriters(c, h, t) = {} THEN ts[t]
        ELSE [ts[t] EXCEPT !.val = InitValue(c, MaxOf(InitWriters(c, h, t)))]]

EndsWithCProj(name) == name \in {"attn.c_proj.weight", "mlp.c_proj.weight"}

\* the scaled init of the residual projections (pn.endswith('c_proj.weight'))
ScaleProj(c, h, ts) ==
    [t \in DOMAIN ts |->
        IF \E i \in DOMAIN h : h[i] = t /\ EndsWithCProj(ParamList(c)[i].name)
        THEN [ts[t] EXCEPT !.val = Value("scaled", t)]
        ELSE ts[t]]

\* the asserts of GPT.__init__
ConfigAsserts(c) == c.block_size = c.patch_size * c.sub_block_size

\* the assert of CausalSelfAttention.__init__, run once per Block
AttentionAsserts(c) == c.n_embd % c.n_head = 0

\* a constructor whose attention modules do not check the head split
BuildOkNoAssert(c) == TRUE

\* the modules are built: Block(config) for _ in range(n_layer)
BuildOk(c) == c.n_layer >= 1 => AttentionAsserts(c)

\* the statistics locals of Block.forward, before any is computed
NoStat ==
    [pc |-> "idle", att |-> <<>>, outside_attn |-> <<>>, x |-> <<>>, xu |-> <<>>,
     patch_contrib |-> <<>>, report |-> <<>>]

\* the sampling locals of generate, outside any iteration
NoSamp == [pc |-> "idle", raw |-> <<>>, logits |-> <<>>, idx_next |-> -1]

\* time.time() at 0 and no Timer made: start_time = -1 stands for None
NoTimer == [dt |-> 0, start_time |-> -1]

NoHist == [last |-> "none", effective |-> FALSE, running |-> FALSE, total |-> 0]

TimerIdle ==
    /\ timer = NoTimer
    /\ clock = 0
    /\ hist = NoHist

NoOptim == [called |-> FALSE, weight_decay |-> 0, groups |-> <<>>, trainable |-> {}]

\* p.dim() of a tensor: the rank its attribute was created with
Dim(c, t) == ParamList(c)[t].rank

\* self.named_parameters(): the attributes in order, a tensor held by
\* several attributes listed once, under the first
NamedParameters(c, h) ==
    LET First(i) == \A j \in 1..(i - 1) : h[j] # h[i]
        Pick(i) == First(i)
    IN  SelectSeq([i \in DOMAIN h |-> i], Pick)

\* a grouping that decays only tensors of rank above 2
DecaysAbove2(c, t) == Dim(c, t) > 2

\* p.dim() >= 2
Decays(c, t) == Dim(c, t) >= 2

\* configure_optimizers: the two parameter groups handed to AdamW, as lists
\* of tensors
ConfigureOptimizers(c, h, ts, weight_decay) ==
    LET named == NamedParameters(c, h)
        Grad(i) == ts[h[i]].requires_grad
        param_dict == SelectSeq(named, Grad)
        IsDecay(i) == Decays(c, h[i])
        IsNoDecay(i) == ~Decays(c, h[i])
        decay_params == SelectSeq(param_dict, IsDecay)
        nodecay_params == SelectSeq(param_dict, IsNoDecay)
    IN  << [params |-> [j \in DOMAIN decay_params |-> h[decay_params[j]]],
            weight_decay |-> weight_decay],
           [params |-> [j \in DOMAIN nodecay_params |-> h[nodecay_params[j]]],
            weight_decay |-> 0] >>

\* a model that GPT(config) returned, before any later write
Constructed(c) ==
    /\ ctor = "constructed"
    /\ handles = TieWeights(c, [i \in DOMAIN ParamList(c) |-> i])
    /\ tensors = ScaleProj(c, handles, ApplyInit(c, handles, FreshTensors(c)))
    /\ optim = NoOptim

(***************************************************************************)
(* SpecForward: one call of GPT.forward on a constructed model, stage by   *)
(* stage.                                                                  *)
(***************************************************************************)
\* the configurations GPT.__init__ accepts, within the bounds
ValidConfigs ==
    {GPTConfig(p * s, MaxVocab, nl, 1, 2, TRUE, s, p, st) :
        p \in 1..MaxPatch, s \in 1..MaxSubBlock, nl \in 0..MaxLayer, st \in BOOLEAN}

FlipStats(c) == [c EXCEPT !.compute_stats = ~c.compute_stats]

InitForward ==
    /\ cfg \in ValidConfigs
    /\ total_t \in 1..(MaxPatch * MaxSubBlock + MaxExtraT)
    /\ total_t <= cfg.block_size + MaxExtraT
    /\ targets \in BOOLEAN
    /\ hasFlash \in BOOLEAN
    /\ fwd = NewPass
    /\ fwdRef = Forward(FlipStats(cfg), Flash(FlipStats(cfg), hasFlash), total_t, targets)
    /\ GenerateIdle
    /\ Constructed(cfg)
    /\ stat = NoStat
    /\ samp = NoSamp
    /\ TimerIdle

Embed ==
    /\ fwd.pc = "embed"
    /\ fwd' = EmbedStage(cfg, total_t, fwd)
    /\ UNCHANGED <<cfg, hasFlash, total_t, targets, fwdRef, exceptFwd>>

PatchifyStep ==
    /\ fwd.pc = "patchify"
    /\ fwd' = PatchifyStage(cfg, fwd)
    /\ UNCHANGED <<cfg, hasFlash, total_t, targets, fwdRef, exceptFwd>>

BlockStep ==
    /\ fwd.pc = "blocks"
    /\ fwd.layer < cfg.n_layer
    /\ fwd' = BlockStage(cfg, Flash(cfg, hasFlash), fwd)
    /\ UNCHANGED <<cfg, hasFlash, total_t, targets, fwdRef, exceptFwd>>

Final ==
    /\ fwd.pc = "blocks"
    /\ fwd.layer >= cfg.n_layer
    /\ fwd' = FinalStage(cfg, total_t, targets, fwd)
    /\ UNCHANGED <<cfg, hasFlash, total_t, targets, fwdRef, exceptFwd>>

NextForward == Embed \/ PatchifyStep \/ BlockStep \/ Final

SpecForward == InitForward /\ [][NextForward]_vars

(***************************************************************************)
(* Claims about the forward pass.                                          *)
(***************************************************************************)
Terminated == fwd.pc \in {"done", "error"}

Patchified == fwd.pc \in {"blocks", "done"}

\* C1 (as amended): patch embedding j returned by Patchify.forward is
\* computed only from input positions <= j * patch_size.
C1_PatchifyCausal ==
    Patchified =>
        \A j \in DOMAIN fwd.pat_emb :
            \A i \in fwd.pat_emb[j] : i <= j * cfg.patch_size

\* C1 (as stated): patch embedding j is computed only from input positions
\* < j * patch_size.
C1_Original ==
    Patchified =>
        \A j \in DOMAIN fwd.pat_emb :
            \A i \in fwd.pat_emb[j] : i < j * cfg.patch_size

C1_Witness ==
    /\ Patchified
    /\ cfg.patch_size >= 2
    /\ \E j \in DOMAIN fwd.pat_emb :
          /\ j >= 1
          /\ fwd.pat_emb[j] = (j * cfg.patch_size - cfg.patch_size + 1)..(j * cfg.patch_size)

\* C2: with targets, forward completes without a shape error and returns
\* logits of total_t positions, for every total_t >= 1.  Stated for the
\* inputs that fit the block (total_t <= block_size) of configurations
\* whose sub-blocks hold at least one patch, where it already fails.
C2_ForwardShape ==
    (/\ targets
     /\ Terminated
     /\ total_t <= cfg.block_size
     /\ cfg.patch_size <= cfg.sub_block_size)
        => (fwd.pc = "done" /\ Size(fwd.logits) = total_t)

\* C3: the logits at position t, and the token stream at every stage, are
\* computed only from input positions <= t.
C3_Causal ==
    /\ \A kk \in DOMAIN fwd.x : \A t \in DOMAIN fwd.x[kk] :
          \A i \in fwd.x[kk][t] : i <= kk * cfg.sub_block_size + t
    /\ (fwd.pc = "done" /\ targets) =>
          \A t \in DOMAIN fwd.logits : \A i \in fwd.logits[t] : i <= t
    /\ (fwd.pc = "done" /\ ~targets) =>
          \A i \in fwd.logits[0] : i <= total_t - 1

C3_Witness ==
    /\ fwd.pc = "done"
    /\ targets
    /\ cfg.n_layer >= 2
    /\ cfg.patch_size >= 2
    /\ \E t \in DOMAIN fwd.logits :
          /\ t >= cfg.sub_block_size
          /\ fwd.logits[t] = 0..t

GenConfigs == {c \in ValidConfigs : ~c.compute_stats /\ c.n_layer <= 1}

Ids(n) == UNION {[1..m -> 0..(MaxVocab - 1)] : m \in 1..n}

InitGenerate ==
    /\ cfg \in GenConfigs
    /\ hasFlash = TRUE
    /\ ForwardIdle
    /\ Constructed(cfg)
    /\ stat = NoStat
    /\ samp = NoSamp
    /\ TimerIdle
    /\ idx0 \in Ids(MaxCtx)
    /\ idx = idx0
    /\ max_new_tokens \in 0..MaxNew
    /\ top_k \in {NoTopK} \cup {[given |-> TRUE, k |-> k] : k \in (-1)..(MaxVocab + 1)}
    /\ gen = NewGen

\* the body of `for _ in range(max_new_tokens)`, raising in the forward pass
GenerateStepShapeError ==
    /\ gen.pc = "loop"
    /\ gen.i < max_new_tokens
    /\ LET idx_cond == Crop(idx, cfg.block_size)
       IN  /\ Forward(cfg, Flash(cfg, hasFlash), Len(idx_cond), FALSE).pc = "error"
           /\ gen' = [gen EXCEPT !.pc = "raised", !.err = "shape", !.idx_cond = idx_cond]
    /\ UNCHANGED <<cfg, hasFlash, exceptGen, idx, idx0, max_new_tokens, top_k>>

\* the body of the loop, raising in the top-k crop
GenerateStepTopKError ==
    /\ gen.pc = "loop"
    /\ gen.i < max_new_tokens
    /\ LET idx_cond == Crop(idx, cfg.block_size)
       IN  /\ Forward(cfg, Flash(cfg, hasFlash), Len(idx_cond), FALSE).pc = "done"
           /\ top_k.given
           /\ \E row \in LogitRows(cfg) : ~TopK(row, top_k.k).ok
           /\ gen' = [gen EXCEPT !.pc = "raised", !.err = "top_k", !.idx_cond = idx_cond]
    /\ UNCHANGED <<cfg, hasFlash, exceptGen, idx, idx0, max_new_tokens, top_k>>

\* the ids one iteration can append: for some row of logits, the top-k crop
\* passes and multinomial can draw the id from what is left
Sampled(c, k) ==
    {idx_next \in 0..(c.vocab_size - 1) :
        \E row \in LogitRows(c) :
            LET tk == IF k.given THEN TopK(row, k.k) ELSE [ok |-> TRUE, logits |-> row]
            IN  tk.ok /\ idx_next \in Candidates(tk.logits)}

\* the body of the loop, appending the sampled id
GenerateStep ==
    /\ gen.pc = "loop"
    /\ gen.i < max_new_tokens
    /\ LET idx_cond == Crop(idx, cfg.block_size)
       IN  /\ Forward(cfg, Flash(cfg, hasFlash), Len(idx_cond), FALSE).pc = "done"
           /\ \E idx_next \in Sampled(cfg, top_k) :
                 /\ idx' = Append(idx, idx_next)
                 /\ gen' = [gen EXCEPT !.i = gen.i + 1, !.idx_cond = idx_cond]
    /\ UNCHANGED <<cfg, hasFlash, exceptGen, idx0, max_new_tokens, top_k>>

\* the loop is over: return idx
GenerateReturn ==
    /\ gen.pc = "loop"
    /\ gen.i >= max_new_tokens
    /\ gen' = [gen EXCEPT !.pc = "returned"]
    /\ UNCHANGED <<cfg, hasFlash, exceptGen, idx, idx0, max_new_tokens, top_k>>

NextGenerate ==
    GenerateStepShapeError \/ GenerateStepTopKError \/ GenerateStep \/ GenerateReturn

SpecGenerate == InitGenerate /\ [][NextGenerate]_vars

(***************************************************************************)
(* Claims about generate.                                                  *)
(***************************************************************************)
\* the running sequence the latest iteration started from
IdxBefore ==
    IF gen.pc = "raised" \/ gen.i = 0 THEN idx ELSE SubSeq(idx, 1, Len(idx) - 1)

\* C4: generate either returns idx0 extended by exactly max_new_tokens ids
\* after max_new_tokens iterations, or raises on an invalid configuration
\* (top_k <= 0).  Stated for the configurations whose sub-blocks hold at
\* least one patch, where it already fails.
C4_GenerateLength ==
    (gen.pc \in {"returned", "raised"} /\ cfg.patch_size <= cfg.sub_block_size) =>
        \/ /\ gen.pc = "returned"
           /\ gen.i = max_new_tokens
           /\ Len(idx) = Len(idx0) + max_new_tokens
           /\ SubSeq(idx, 1, Len(idx0)) = idx0
        \/ /\ gen.pc = "raised"
           /\ top_k.given
           /\ top_k.k <= 0

\* C5: the context of every iteration is the last min(len, block_size) ids
\* of the running sequence; a running sequence longer than block_size
\* raises no shape error; the running sequence keeps all its ids.
C5_ContextCrop ==
    /\ (gen.i > 0 \/ gen.pc = "raised") =>
          LET n == Min(Len(IdxBefore), cfg.block_size)
          IN  /\ Len(gen.idx_cond) = n
              /\ \A j \in 1..n :
                    gen.idx_cond[j] = IdxBefore[Len(IdxBefore) - n + j]
              /\ (Len(IdxBefore) > cfg.block_size) => gen.err # "shape"
    /\ Len(idx) = Len(idx0) + gen.i
    /\ SubSeq(idx, 1, Len(idx0)) = idx0

C5_Witness ==
    /\ gen.pc = "returned"
    /\ gen.i = 2
    /\ cfg.block_size >= 2
    /\ cfg.n_layer = 1
    /\ Len(idx0) > cfg.block_size
    /\ gen.idx_cond # IdxBefore
    /\ gen.idx_cond[1] # IdxBefore[1]

(***************************************************************************)
(* SpecConstruct: GPT(config) step by step, then in-place writes to the    *)
(* embedding / output weight through either attribute.                     *)
(***************************************************************************)
CtorConfigs ==
    {GPTConfig(bs, MaxVocab, nl, nh, ne, bias, s, p, FALSE) :
        bs \in 1..(MaxPatch * MaxSubBlock + 1), nl \in 0..MaxLayer, nh \in 1..MaxHead,
        ne \in 1..MaxEmbd, bias \in BOOLEAN, s \in 1..MaxSubBlock, p \in 1..MaxPatch}

InitConstruct ==
    /\ cfg \in CtorConfigs
    /\ cfg.block_size \in (cfg.patch_size * cfg.sub_block_size - 1)..(cfg.patch_size * cfg.sub_block_size + 1)
    /\ hasFlash = TRUE
    /\ ForwardIdle
    /\ GenerateIdle
    /\ ctor = "new"
    /\ handles = <<>>
    /\ tensors = <<>>
    /\ optim = NoOptim
    /\ stat = NoStat
    /\ samp = NoSamp
    /\ TimerIdle

\* the asserts at the head of GPT.__init__
CheckConfig ==
    /\ ctor = "new"
    /\ ctor' = IF ConfigAsserts(cfg) THEN "checked" ELSE "failed"
    /\ UNCHANGED <<cfg, hasFlash, exceptCtor, handles, tensors, optim>>

\* Patchify, the ModuleDict with its Blocks, and lm_head are built
BuildModules ==
    /\ ctor = "checked"
    /\ IF BuildOk(cfg)
       THEN /\ ctor' = "built"
            /\ handles' = [i \in DOMAIN ParamList(cfg) |-> i]
            /\ tensors' = FreshTensors(cfg)
       ELSE /\ ctor' = "failed"
            /\ UNCHANGED <<handles, tensors>>
    /\ UNCHANGED <<cfg, hasFlash, exceptCtor, optim>>

Tie ==
    /\ ctor = "built"
    /\ ctor' = "tied"
    /\ handles' = TieWeights(cfg, handles)
    /\ UNCHANGED <<cfg, hasFlash, exceptCtor, tensors, optim>>

InitWeights ==
    /\ ctor = "tied"
    /\ ctor' = "initialised"
    /\ tensors' = ApplyInit(cfg, handles, tensors)
    /\ UNCHANGED <<cfg, hasFlash, exceptCtor, handles, optim>>

ScaledInit ==
    /\ ctor = "initialised"
    /\ ctor' = "constructed"
    /\ tensors' = ScaleProj(cfg, handles, tensors)
    /\ UNCHANGED <<cfg, hasFlash, exceptCtor, handles, optim>>

\* an in-place update of transformer.wte.weight
WriteWte ==
    /\ ctor = "constructed"
    /\ \E w \in 1..MaxWrite :
          tensors' = WriteThrough(handles, tensors, Wte(cfg), Value("wte", w))
    /\ UNCHANGED <<cfg, hasFlash, exceptCtor, ctor, handles, optim>>

\* an in-place update of lm_head.weight
WriteLmHead ==
    /\ ctor = "constructed"
    /\ \E w \in 1..MaxWrite :
          tensors' = WriteThrough(handles, tensors, LmHead(cfg), Value("lm_head", w))
    /\ UNCHANGED <<cfg, hasFlash, exceptCtor, ctor, handles, optim>>

NextConstruct ==
    \/ CheckConfig
    \/ BuildModules
    \/ Tie
    \/ InitWeights
    \/ ScaledInit
    \/ WriteWte
    \/ WriteLmHead

SpecConstruct == InitConstruct /\ [][NextConstruct]_vars

(***************************************************************************)
(* SpecParams: a constructed model whose parameters are frozen one by one  *)
(* and handed to configure_optimizers.                                     *)
(***************************************************************************)
ParamConfigs ==
    {GPTConfig(1, MaxVocab, nl, 1, 2, bias, 1, 1, FALSE) :
        nl \in 0..MaxLayer, bias \in BOOLEAN}

InitParams ==
    /\ cfg \in ParamConfigs
    /\ hasFlash = TRUE
    /\ ForwardIdle
    /\ GenerateIdle
    /\ Constructed(cfg)
    /\ stat = NoStat
    /\ samp = NoSamp
    /\ TimerIdle

Live == {handles[i] : i \in DOMAIN handles}

Trainable == {t \in Live : tensors[t].requires_grad}

\* p.requires_grad_(False) through attribute i
Freeze ==
    /\ ctor = "constructed"
    /\ Cardinality(Live \ Trainable) < MaxFrozen
    /\ \E i \in DOMAIN handles :
          /\ tensors[handles[i]].requires_grad
          /\ tensors' = [tensors EXCEPT ![handles[i]].requires_grad = FALSE]
    /\ UNCHANGED <<cfg, hasFlash, exceptCtor, ctor, handles, optim>>

\* model.configure_optimizers(weight_decay, ...); Trainable is recorded
\* beside the groups as the set the call saw
ConfigureOptimizersCall ==
    /\ ctor = "constructed"
    /\ \E weight_decay \in 0..MaxDecay :
          optim' = [called |-> TRUE,
                    weight_decay |-> weight_decay,
                    groups |-> ConfigureOptimizers(cfg, handles, tensors, weight_decay),
                    trainable |-> Trainable]
    /\ UNCHANGED <<cfg, hasFlash, exceptCtor, ctor, handles, tensors>>

NextParams == Freeze \/ ConfigureOptimizersCall

SpecParams == InitParams /\ [][NextParams]_vars

(***************************************************************************)
(* Claims about construction and the parameters.                           *)
(***************************************************************************)
Built == ctor \in {"built", "tied", "initialised", "constructed"}

\* C6 (as amended): construction fails whenever block_size differs from
\* patch_size * sub_block_size, or the model has at least one layer and
\* n_embd is no multiple of n_head; no instance exists otherwise.
C6_FailFast ==
    /\ Built => ConfigAsserts(cfg)
    /\ (Built /\ cfg.n_layer >= 1) => AttentionAsserts(cfg)
    /\ (ctor = "checked") => ConfigAsserts(cfg)

\* C6 (as stated): for any n_layer >= 0, no instance exists with
\* block_size # patch_size * sub_block_size or n_embd % n_head # 0.
C6_Original ==
    Built => (ConfigAsserts(cfg) /\ AttentionAsserts(cfg))

C6_Witness ==
    /\ ctor = "failed"
    /\ ConfigAsserts(cfg)
    /\ ~AttentionAsserts(cfg)
    /\ cfg.n_layer >= 1

\* C7: once GPT(config) has returned, transformer.wte.weight and
\* lm_head.weight are one tensor, and whatever was last written through
\* either attribute is read through both.
C7_WeightTying ==
    (ctor = "constructed") =>
        /\ handles[Wte(cfg)] = handles[LmHead(cfg)]
        /\ tensors[handles[Wte(cfg)]].val = tensors[handles[LmHead(cfg)]].val

C7_Witness ==
    /\ ctor = "constructed"
    /\ tensors[handles[LmHead(cfg)]].val = Value("wte", MaxWrite)
    /\ tensors[handles[Wte(cfg)]].val = Value("wte", MaxWrite)
    /\ cfg.n_layer >= 1

Count(t, params) == Cardinality({j \in DOMAIN params : params[j] = t})

\* C8: configure_optimizers puts every trainable tensor in exactly one
\* group, once: rank >= 2 in the group with the given weight_decay, rank
\* < 2 in the group with weight_decay 0; tensors that do not require grad
\* are in neither.
C8_Partition ==
    optim.called =>
        /\ Len(optim.groups) = 2
        /\ optim.groups[1].weight_decay = optim.weight_decay
        /\ optim.groups[2].weight_decay = 0
        /\ \A t \in DOMAIN tensors :
              LET inDecay == Count(t, optim.groups[1].params)
                  inNoDecay == Count(t, optim.groups[2].params)
              IN  /\ (t \in optim.trainable /\ ParamList(cfg)[t].rank >= 2)
                        => (inDecay = 1 /\ inNoDecay = 0)
                  /\ (t \in optim.trainable /\ ParamList(cfg)[t].rank < 2)
                        => (inDecay = 0 /\ inNoDecay = 1)
                  /\ (t \notin optim.trainable) => (inDecay = 0 /\ inNoDecay = 0)

C8_Witness ==
    /\ optim.called
    /\ optim.weight_decay = 1
    /\ cfg.n_layer >= 1
    /\ cfg.bias
    /\ Count(handles[Wte(cfg)], optim.groups[1].params) = 1
    /\ \E t \in Live \ optim.trainable : ParamList(cfg)[t].rank >= 2
    /\ \E j \in DOMAIN optim.groups[1].params :
          ParamList(cfg)[optim.groups[1].params[j]].rank = 3
    /\ \E j \in DOMAIN optim.groups[2].params :
          ParamList(cfg)[optim.groups[2].params[j]].kind = "LayerNorm"

(***************************************************************************)
(* SpecStats: the statistics of one Block.forward with compute_stats on.   *)
(* Values are exact fractions [n, d]; d = 0 stands for a float that is not *)
(* a number.                                                               *)
(***************************************************************************)
MaxStatCtx == 2
MaxElem == 1
AttDen == 2

Rat(n, d) == [n |-> n, d |-> d]

\* float('nan')
NaN == Rat(0, 0)

IsNaN(a) == a.d = 0

\* a + b and a * b of two floats; nan propagates
RAdd(a, b) == IF IsNaN(a) \/ IsNaN(b) THEN NaN ELSE Rat(a.n * b.d + b.n * a.d, a.d * b.d)

RMul(a, b) == IF IsNaN(a) \/ IsNaN(b) THEN NaN ELSE Rat(a.n * b.n, a.d * b.d)

\* 1 - a
OneMinus(a) == IF IsNaN(a) THEN NaN ELSE Rat(a.d - a.n, a.d)

Abs(i) == IF i < 0 THEN -i ELSE i

\* tensor.std(-1) over the embedding axis, unbiased (divides by n - 1): not
\* a number for one element; for two elements a, b it is |a - b| / sqrt(2),
\* kept here in units of 1 / sqrt(2), which cancel in the ratio of line 195
Std(v) == IF Len(v) < 2 THEN NaN ELSE Rat(Abs(v[1] - v[2]), 1)

\* xu_std / (x_std + xu_std) of two standard deviations (both >= 0): 0 / 0
\* is not a number
Ratio(xu_std, x_std) ==
    IF IsNaN(xu_std) \/ IsNaN(x_std) THEN NaN
    ELSE IF x_std.n + xu_std.n = 0 THEN NaN
    ELSE Rat(xu_std.n, x_std.n + xu_std.n)

RECURSIVE RSum(_, _)
RSum(flat, n) == IF n = 0 THEN Rat(0, 1) ELSE RAdd(RSum(flat, n - 1), flat[n - 1])

\* tensor.mean() of a tensor of shape (t)
Mean1(row) ==
    LET s == RSum(row, Size(row))
    IN  IF IsNaN(s) THEN NaN ELSE Rat(s.n, s.d * Size(row))

\* tensor.mean() of a tensor of shape (k, t)
Mean2(x) == Mean1(Merge(x))

\* the weights softmax can return for the patch row of the packed batch:
\* per head and query, multiples of 1 / AttDen that sum to 1, zero on the
\* keys the causal mask removed
SoftmaxWeights(c) ==
    LET T == c.sub_block_size
        Rows(t) == {w \in [0..(T - 1) -> 0..AttDen] :
                       /\ \A s \in 0..(T - 1) : s \notin AttnWeights(T)[t] => w[s] = 0
                       /\ RSum([s \in 0..(T - 1) |-> Rat(w[s], 1)], T).n = AttDen}
    IN  [0..(c.n_head - 1) -> {a \in [0..(T - 1) -> [0..(T - 1) -> 0..AttDen]] :
                                  \A t \in 0..(T - 1) : a[t] \in Rows(t)}]

\* outside_attn = att.masked_fill(inside_mask == 0, 0.0).sum(-1).mean(-2)
OutsideAttnStat(c, att) ==
    LET T == c.sub_block_size
        kept == OutsideAttn(c, AttnWeights(T))
        PerHead(t, h) == RSum([s \in 0..(T - 1) |->
                               Rat(IF s \in kept[t] THEN att[h][t][s] ELSE 0, AttDen)], T)
    IN  [t \in 0..(T - 1) |->
            LET s == RSum([h \in 0..(c.n_head - 1) |-> PerHead(t, h)], c.n_head)
            IN  Rat(s.n, s.d * c.n_head)]

\* repeat 'b t -> b (t k)' then rearrange 'b (k t) -> b k t', k = xu.shape[1]
OutsideAttnRepeat(c, outside_attn, k) ==
    LET rep == [i \in 0..(Size(outside_attn) * k - 1) |-> outside_attn[i \div k]]
    IN  Split(rep, Size(rep) \div k)

\* patch_contrib = xu_std / (x_std + xu_std), broadcast over the sub-blocks
PatchContrib(c, x, xu) ==
    LET k == BroadcastSize(Size(x), Size(xu))
    IN  [kk \in 0..(k - 1) |->
            [t \in 0..(c.sub_block_size - 1) |->
                Ratio(Std(xu[BIdx(Size(xu), kk)][t]), Std(x[BIdx(Size(x), kk)][t]))]]

\* the four entries of stats
StatsReport(c, outside_attn, patch_contrib, k) ==
    LET outside_attn_repeat == OutsideAttnRepeat(c, outside_attn, k)
        outside_contrib ==
            [kk \in DOMAIN patch_contrib |-> [t \in DOMAIN patch_contrib[kk] |->
                RMul(patch_contrib[kk][t], outside_attn_repeat[kk][t])]]
        inside_patch_contrib ==
            [kk \in DOMAIN patch_contrib |-> [t \in DOMAIN patch_contrib[kk] |->
                RMul(patch_contrib[kk][t], OneMinus(outside_attn_repeat[kk][t]))]]
    IN  [outside_attn |-> Mean1(outside_attn),
         patch_contrib |-> Mean2(patch_contrib),
         outside_contrib |-> Mean2(outside_contrib),
         inside_patch_contrib |-> Mean2(inside_patch_contrib)]

\* the number of sub-blocks of the token stream
SubBlocks(c, tt) == Size(EmbedStage(c, tt, NewPass).x)

\* single-layer configurations with compute_stats on that GPT.__init__
\* accepts; n_embd stays within the two sizes Std is exact for
StatConfigs ==
    {GPTConfig(p * s, MaxVocab, 1, nh, ne, TRUE, s, p, TRUE) :
        p \in 1..MaxStatCtx, s \in 1..MaxStatCtx, nh \in 1..2, ne \in 1..2}

\* a forward pass that reaches the statistics of its block
InitStats ==
    /\ cfg \in StatConfigs
    /\ cfg.block_size <= MaxStatCtx
    /\ ConfigAsserts(cfg) /\ AttentionAsserts(cfg)
    /\ hasFlash \in BOOLEAN
    /\ total_t \in 1..MaxStatCtx
    /\ total_t <= cfg.block_size
    /\ Forward(cfg, Flash(cfg, hasFlash), total_t, FALSE).pc = "done"
    /\ targets = FALSE
    /\ fwd = NewPass
    /\ fwdRef = NewPass
    /\ GenerateIdle
    /\ Constructed(cfg)
    /\ stat = [NoStat EXCEPT !.pc = "attn"]
    /\ samp = NoSamp
    /\ TimerIdle

\* self.attn on the patch row, and the unpack of outside_attn
AttentionStat ==
    /\ stat.pc = "attn"
    /\ ~Flash(cfg, hasFlash)
    /\ \E att \in SoftmaxWeights(cfg) :
          stat' = [stat EXCEPT !.pc = "std", !.att = att,
                               !.outside_attn = OutsideAttnStat(cfg, att)]
    /\ UNCHANGED <<cfg, hasFlash, exceptStat>>

\* the two streams after the layers, and their standard deviations
StdStat ==
    /\ stat.pc = "std"
    /\ LET k == SubBlocks(cfg, total_t)
           Elems == [1..cfg.n_embd -> 0..MaxElem]
       IN  \E x \in [0..(k - 1) -> [0..(cfg.sub_block_size - 1) -> Elems]],
              xu \in [0..(cfg.patch_size - 1) -> [0..(cfg.sub_block_size - 1) -> Elems]] :
              stat' = [stat EXCEPT !.pc = "report", !.x = x, !.xu = xu,
                                   !.patch_contrib = PatchContrib(cfg, x, xu)]
    /\ UNCHANGED <<cfg, hasFlash, exceptStat>>

\* the .mean().item() of the four statistics
Report ==
    /\ stat.pc = "report"
    /\ stat' = [stat EXCEPT !.pc = "reported",
                            !.report = StatsReport(cfg, stat.outside_attn,
                                                   stat.patch_contrib, Size(stat.xu))]
    /\ UNCHANGED <<cfg, hasFlash, exceptStat>>

NextStats == AttentionStat \/ StdStat \/ Report

SpecStats == InitStats /\ [][NextStats]_vars

(***************************************************************************)
(* Claims about the statistics.                                            *)
(***************************************************************************)
InUnit(a) == ~IsNaN(a) /\ 0 <= a.n /\ a.n <= a.d

\* C10: with compute_stats on, each of the four statistics a layer reports
\* (outside_attn, patch_contrib, outside_contrib, inside_patch_contrib) is
\* a well-defined value in [0, 1]; stated for n_embd >= 2, where the
\* standard deviation of one position is itself defined.
C10_StatsInUnit ==
    (stat.pc = "reported" /\ cfg.n_embd >= 2) =>
        \A name \in StatNames : InUnit(stat.report[name])

(***************************************************************************)
(* SpecTopK: one iteration of the loop of generate, from the logits of the *)
(* forward pass to the sampled id.                                         *)
(***************************************************************************)
MaxTopKVocab == 3

\* one-layer configurations GPT.__init__ accepts, of every vocabulary size
TopKConfigs ==
    {GPTConfig(1, vs, 1, 1, 2, TRUE, 1, 1, FALSE) : vs \in 1..MaxTopKVocab}

InitTopK ==
    /\ cfg \in TopKConfigs
    /\ hasFlash = TRUE
    /\ ForwardIdle
    /\ Constructed(cfg)
    /\ stat = NoStat
    /\ TimerIdle
    /\ idx0 \in [1..1 -> 0..(cfg.vocab_size - 1)]
    /\ idx = idx0
    /\ max_new_tokens = 1
    /\ top_k \in {NoTopK} \cup {[given |-> TRUE, k |-> k] : k \in (-1)..(MaxTopKVocab + 1)}
    /\ gen = NewGen
    /\ samp = NoSamp

\* logits, _, _ = self(idx_cond); logits = logits[:, -1, :] / temperature
ForwardLogits ==
    /\ samp.pc = "idle"
    /\ gen.pc = "loop"
    /\ gen.i < max_new_tokens
    /\ LET idx_cond == Crop(idx, cfg.block_size)
       IN  /\ Forward(cfg, Flash(cfg, hasFlash), Len(idx_cond), FALSE).pc = "done"
           /\ gen' = [gen EXCEPT !.idx_cond = idx_cond]
    /\ \E row \in LogitRows(cfg) :
          samp' = [samp EXCEPT !.pc = "topk", !.raw = row, !.logits = row]
    /\ UNCHANGED <<cfg, hasFlash, exceptSamp, idx, idx0, max_new_tokens, top_k>>

\* `if top_k is not None`: the crop raises
TopKRaise ==
    /\ samp.pc = "topk"
    /\ top_k.given
    /\ ~TopK(samp.logits, top_k.k).ok
    /\ samp' = [samp EXCEPT !.pc = "raised"]
    /\ gen' = [gen EXCEPT !.pc = "raised", !.err = "top_k"]
    /\ UNCHANGED <<cfg, hasFlash, exceptSamp, idx, idx0, max_new_tokens, top_k>>

\* `if top_k is not None`: the crop, skipped for top_k = None
TopKCrop ==
    /\ samp.pc = "topk"
    /\ top_k.given => TopK(samp.logits, top_k.k).ok
    /\ samp' = [samp EXCEPT !.pc = "sample",
                            !.logits = IF top_k.given
                                       THEN TopK(samp.logits, top_k.k).logits
                                       ELSE samp.logits]
    /\ UNCHANGED <<cfg, hasFlash, exceptSamp, idx, idx0, max_new_tokens, top_k, gen>>

\* softmax, multinomial and torch.cat
Sample ==
    /\ samp.pc = "sample"
    /\ \E idx_next \in Candidates(samp.logits) :
          /\ samp' = [samp EXCEPT !.pc = "sampled", !.idx_next = idx_next]
          /\ idx' = Append(idx, idx_next)
    /\ gen' = [gen EXCEPT !.i = gen.i + 1]
    /\ UNCHANGED <<cfg, hasFlash, exceptSamp, idx0, max_new_tokens, top_k>>

NextTopK == ForwardLogits \/ TopKRaise \/ TopKCrop \/ Sample

SpecTopK == InitTopK /\ [][NextTopK]_vars

(***************************************************************************)
(* Claims about the top-k crop.                                            *)
(***************************************************************************)
\* the number of logits of the row strictly above the one of id i
Above(row, i) == Cardinality({j \in DOMAIN row : row[j] > row[i]})

\* C11: with top_k = k >= 1 given, after the crop a logit is -inf if it
\* was strictly below the min(k, vocab_size)-th largest of its row (at
\* least that many logits were strictly above it) and unchanged otherwise;
\* at least min(k, vocab_size) candidates remain; the sampled id is none
\* of the removed ones.
C11_TopK ==
    (samp.pc \in {"sample", "sampled"} /\ top_k.given /\ top_k.k >= 1) =>
        LET kk == Min(top_k.k, cfg.vocab_size)
        IN  /\ DOMAIN samp.logits = DOMAIN samp.raw
            /\ \A i \in DOMAIN samp.raw :
                  samp.logits[i] = IF Above(samp.raw, i) >= kk THEN NegInf ELSE samp.raw[i]
            /\ Cardinality({i \in DOMAIN samp.logits : samp.logits[i] # NegInf}) >= kk
            /\ (samp.pc = "sampled") =>
                  /\ Above(samp.raw, samp.idx_next) < kk
                  /\ samp.logits[samp.idx_next] # NegInf
                  /\ idx = Append(idx0, samp.idx_next)

\* a crop that removed a logit and kept a tie at the k-th largest, and an
\* id sampled from what was left
C11_Witness ==
    /\ samp.pc = "sampled"
    /\ top_k.given
    /\ top_k.k = 1
    /\ \E i \in DOMAIN samp.raw : samp.logits[i] = NegInf
    /\ Cardinality({i \in DOMAIN samp.logits : samp.logits[i] # NegInf}) = 2

(***************************************************************************)
(* SpecTimer: one utils.Timer under start(), stop() and the passing of     *)
(* time.  hist keeps what was asked of the timer: whether an interval is   *)
(* open (running) and the clock time spent inside intervals (total).       *)
(***************************************************************************)
MaxClock == 5
MaxTick == 2

\* Timer.run
Run(t, now) == IF t.start_time = -1 THEN 0 ELSE now - t.start_time

\* Timer.time
Time(t, now) == t.dt + Run(t, now)

\* a start that takes the time whether or not the timer runs
StartNoGuard(t, now) == [t EXCEPT !.start_time = now]

\* Timer.start
Start(t, now) == IF t.start_time = -1 THEN [t EXCEPT !.start_time = now] ELSE t

\* Timer.stop
Stop(t, now) == [dt |-> t.dt + Run(t, now), start_time |-> -1]

\* Timer.__init__
NewTimer(start, now) == IF start THEN Start(NoTimer, now) ELSE NoTimer

\* Timer(start) made at some time of the clock; no model is built
InitTimer ==
    /\ cfg = GPTConfig(1, 1, 0, 1, 1, TRUE, 1, 1, FALSE)
    /\ hasFlash = TRUE
    /\ ForwardIdle
    /\ GenerateIdle
    /\ ctor = "new"
    /\ handles = <<>>
    /\ tensors = <<>>
    /\ optim = NoOptim
    /\ stat = NoStat
    /\ samp = NoSamp
    /\ clock \in 0..1
    /\ \E start \in BOOLEAN :
          /\ timer = NewTimer(start, clock)
          /\ hist = [last |-> "init", effective |-> start, running |-> start, total |-> 0]

\* timer.start()
TimerStart ==
    /\ hist.last # "none"
    /\ timer' = Start(timer, clock)
    /\ hist' = [hist EXCEPT !.last = "start", !.effective = ~hist.running,
                            !.running = TRUE]
    /\ UNCHANGED <<clock, exceptTimer>>

\* timer.stop()
TimerStop ==
    /\ hist.last # "none"
    /\ timer' = Stop(timer, clock)
    /\ hist' = [hist EXCEPT !.last = "stop", !.effective = hist.running,
                            !.running = FALSE]
    /\ UNCHANGED <<clock, exceptTimer>>

\* time passes between two calls
Tick ==
    /\ hist.last # "none"
    /\ \E d \in 1..MaxTick :
          /\ clock + d <= MaxClock
          /\ clock' = clock + d
          /\ hist' = [hist EXCEPT !.last = "tick", !.effective = TRUE,
                                  !.total = IF hist.running THEN hist.total + d
                                            ELSE hist.total]
    /\ UNCHANGED <<timer, exceptTimer>>

NextTimer == TimerStart \/ TimerStop \/ Tick

SpecTimer == InitTimer /\ [][NextTimer]_vars

(***************************************************************************)
(* Claims about the Timer.                                                 *)
(***************************************************************************)
\* C12: under start(), stop() and advances of the clock, time() is the
\* clock time spent between each effective start() and the following
\* stop() plus the running interval; start() on a running timer keeps the
\* running interval, stop() on a stopped timer keeps the accumulated time,
\* and time() never decreases.
C12_TimerAccumulates ==
    /\ []((hist.last # "none") => Time(timer, clock) = hist.total)
    /\ [][/\ Time(timer', clock') >= Time(timer, clock)
          /\ (hist.running /\ hist'.running) => timer'.start_time = timer.start_time
          /\ (~hist.running /\ ~hist'.running) => timer'.dt = timer.dt]_vars

\* a start() on a timer that has run, was stopped, and has been running
\* again for some time
C12_Witness ==
    /\ hist.last = "start"
    /\ ~hist.effective
    /\ timer.dt > 0
    /\ timer.start_time # -1
    /\ clock > timer.start_time
    /\ Time(timer, clock) > timer.dt

=============================================================================
